---- MODULE Spec2Model ----
(***************************************************************************)
(* A model of github.com/mutablelogic/go-media: the manager's decode loop  *)
(* (pkg/media/manager.go, manager.Decode), the manager's registry of open  *)
(* Media (manager.OpenFile, manager.CreateFile, manager.Close), the        *)
(* MediaFlag bitfield (media.go), manager.Map and the audio manager's      *)
(* Convert.                                                                *)
(*                                                                         *)
(* The specifications of the module share its variables:                   *)
(*   Spec            one Decode call, with a context that may be cancelled *)
(*                   at any moment by its owner;                           *)
(*   SpecLive        the same, on containers that may never end, with the  *)
(*                   steps of Decode itself weakly fair;                   *)
(*   SpecManager     one goroutine calling OpenFile, CreateFile,           *)
(*                   Media.Close and Manager.Close one after another;      *)
(*   SpecConcurrent  several goroutines calling them at the same time;     *)
(*   SpecFlags       Is and String on every MediaFlag made of the named    *)
(*                   flags and of bits above them;                         *)
(*   SpecMap         Map on every small Media and category selector;       *)
(*   SpecConvert     one Convert call, its callback returning nil, io.EOF  *)
(*                   or another error on each output buffer.               *)
(***************************************************************************)
EXTENDS Integers, Sequences, FiniteSets, TLC

VARIABLES
    \* ---- one Decode call (manager.go:107-150) ----
    container,  \* the packets av_read_frame delivers, in order: their stream index
    tail,       \* what av_read_frame returns once the packets are exhausted
    streams,    \* the stream indexes the Map (decodemap) has selected
    inputOK,    \* media_map.Input() is a non-nil *input
    packetOK,   \* media_map.Packet() is a non-nil *packet
    ctxErr,     \* ctx.Err(): NoErr until the context is done
    pc,         \* where Decode is
    pos,        \* how many packets have been read from the container
    pktHeld,    \* the reusable packet holds a read that was not released
    result,     \* the local "result": the errors multierror has collected
    returned,   \* Decode has returned
    ret,        \* the value Decode returned
    trace,      \* what Decode has done so far: reads, handler calls, releases, closes
    \* ---- the manager's registry (manager.go:21-90) ----
    media,      \* manager.media: the set of Media tracked as open
    nextId,     \* the identity of the next Media to be constructed
    opened,     \* the Media a successful OpenFile / CreateFile has returned
    kind,       \* per Media: "input" (OpenFile) or "output" (CreateFile)
    cbRan,      \* the Media whose close callback has run
    nclose,     \* per Media: how many times Close was called on it
    lastOp,     \* the last call on the manager and what it returned
    \* ---- goroutines on one manager ----
    wpc,        \* per worker: where it is
    wop,        \* per worker: the call it is in
    wkeys,      \* per worker: Manager.Close's local "keys" still to close
    wmedia,     \* per worker: the Media it constructed / is closing
    inMap,      \* per worker: the access to manager.media it is in the middle of
    raced,      \* an access to manager.media overlapped a write to it
    \* ---- calls of functions that keep no state ----
    mf,         \* a MediaFlag value and the last method called on it (media.go)
    sm,         \* a Media's streams, a selector, and the Map made of them
    cv          \* one call of the audio manager's Convert

decodeVars == <<container, tail, streams, inputOK, packetOK, ctxErr, pc, pos,
                pktHeld, result, returned, ret, trace>>
mgrVars == <<media, nextId, opened, kind, cbRan, nclose, lastOp>>
workerVars == <<wpc, wop, wkeys, wmedia, inMap, raced>>
pureVars == <<mf, sm, cv>>
vars == <<decodeVars, mgrVars, workerVars, pureVars>>

----------------------------------------------------------------------------
(* Bounds of the model *)

\* The longest container: the number of packets before end-of-stream or a read error.
MaxPackets == 3
\* The number of streams in the container.
NumStreams == 2
\* The number of Media one manager constructs.
MaxMedia == 3
\* The number of calls of Media.Close by the owner of a handle.
MaxCloses == 2
\* The number of goroutines calling one manager at the same time.
NumWorkers == 2
\* The number of events kept of a Decode call on a container that never ends.
TraceWindow == 2
\* The number of bits of a MediaFlag modelled above the fifteen named ones
\* (a MediaFlag is a uint).
ExtraBits == 1
\* The number of Media the goroutines construct between them, and the number
\* of calls of Media.Close on one of them by its owner.
MaxWorkerMedia == 2
MaxWorkerCloses == 1
\* The largest number of streams of a Media a Map is made of.
MaxMapStreams == 3
\* The largest number of output buffers one Convert call produces.
MaxOutputs == 2

----------------------------------------------------------------------------
(* Errors *)

NoErr == "nil"
EOF == "io.EOF"
ReadErrors == {EOF, "AVERROR_INVALIDDATA"}
\* A container that never ends (a live source): after its last packet
\* av_read_frame delivers its packets again.
More == "more"
HandlerResults == {NoErr, "handler failed", EOF}
CloseResults == {NoErr, "close failed"}
CancelReasons == {"context.Canceled", "context.DeadlineExceeded"}

StreamIds == 0 .. (NumStreams - 1)

RECURSIVE SeqsUpTo(_, _)
SeqsUpTo(S, n) ==
    IF n = 0 THEN {<<>>}
    ELSE LET shorter == SeqsUpTo(S, n - 1)
         IN  shorter \cup {Append(s, x) : s \in {t \in shorter : Len(t) = n - 1}, x \in S}

Range(s) == {s[i] : i \in 1 .. Len(s)}

\* An error value as a caller sees it: nil, one error, or a *multierror.Error.
Nil == [kind |-> "nil", errs |-> <<>>]
Single(e) == [kind |-> "error", errs |-> <<e>>]
Multi(es) == [kind |-> "multierror", errs |-> es]

\* multierror.Append(result, err): a nil result becomes a one-element aggregate.
MultiAppend(res, err) == Append(res, err)

\* "return result" of an error variable that multierror.Append filled, if at all.
ReturnResult(res) == IF res = <<>> THEN Nil ELSE Multi(res)

Event(op, pkt, err) == [op |-> op, pkt |-> pkt, err |-> err]

----------------------------------------------------------------------------
(* MediaFlag, media.go:13, 140-158, 204-261 *)

\* MediaFlag = (1 << iota)
Iota(i) == 2 ^ i

MEDIA_FLAG_ALBUM == Iota(0)
MEDIA_FLAG_ALBUM_TRACK == Iota(1)
MEDIA_FLAG_ALBUM_COMPILATION == Iota(2)
MEDIA_FLAG_TVSHOW == Iota(3)
MEDIA_FLAG_TVSHOW_EPISODE == Iota(4)
MEDIA_FLAG_FILE == Iota(5)
MEDIA_FLAG_VIDEO == Iota(6)
MEDIA_FLAG_AUDIO == Iota(7)
MEDIA_FLAG_SUBTITLE == Iota(8)
MEDIA_FLAG_DATA == Iota(9)
MEDIA_FLAG_ATTACHMENT == Iota(10)
MEDIA_FLAG_ARTWORK == Iota(11)
MEDIA_FLAG_CAPTIONS == Iota(12)
MEDIA_FLAG_ENCODER == Iota(13)
MEDIA_FLAG_DECODER == Iota(14)
MEDIA_FLAG_NONE == 0
MEDIA_FLAG_MAX_Encoder == MEDIA_FLAG_ENCODER
MEDIA_FLAG_MAX == MEDIA_FLAG_DECODER

NamedFlags ==
    {MEDIA_FLAG_ALBUM, MEDIA_FLAG_ALBUM_TRACK, MEDIA_FLAG_ALBUM_COMPILATION,
     MEDIA_FLAG_TVSHOW, MEDIA_FLAG_TVSHOW_EPISODE, MEDIA_FLAG_FILE,
     MEDIA_FLAG_VIDEO, MEDIA_FLAG_AUDIO, MEDIA_FLAG_SUBTITLE, MEDIA_FLAG_DATA,
     MEDIA_FLAG_ATTACHMENT, MEDIA_FLAG_ARTWORK, MEDIA_FLAG_CAPTIONS,
     MEDIA_FLAG_ENCODER, MEDIA_FLAG_DECODER}

\* The single bits of a MediaFlag above the named ones.
ExtraFlags == {Iota(14 + k) : k \in 1 .. ExtraBits}

\* f & v and f | v on unsigned integers
RECURSIVE BitAnd(_, _)
BitAnd(a, b) ==
    IF a = 0 \/ b = 0 THEN 0
    ELSE (a % 2) * (b % 2) + 2 * BitAnd(a \div 2, b \div 2)

RECURSIVE BitOr(_, _)
BitOr(a, b) ==
    IF a = 0 THEN b
    ELSE IF b = 0 THEN a
    ELSE (IF a % 2 = 1 \/ b % 2 = 1 THEN 1 ELSE 0) + 2 * BitOr(a \div 2, b \div 2)

\* The bitwise OR of a set of flags.
RECURSIVE OrAll(_)
OrAll(S) ==
    IF S = {} THEN MEDIA_FLAG_NONE
    ELSE LET v == CHOOSE x \in S : TRUE IN BitOr(v, OrAll(S \ {v}))

\* media.go:259-261
Is_Equal(f, v) == f = v
Is(f, v) == BitAnd(f, v) = v

InvalidMarker == "[?? Invalid MediaFlag]"

\* media.go:217-254
FlagString(f) ==
    CASE f = MEDIA_FLAG_NONE -> "MEDIA_FLAG_NONE"
      [] f = MEDIA_FLAG_ALBUM -> "MEDIA_FLAG_ALBUM"
      [] f = MEDIA_FLAG_ALBUM_TRACK -> "MEDIA_FLAG_ALBUM_TRACK"
      [] f = MEDIA_FLAG_ALBUM_COMPILATION -> "MEDIA_FLAG_ALBUM_COMPILATION"
      [] f = MEDIA_FLAG_TVSHOW -> "MEDIA_FLAG_TVSHOW"
      [] f = MEDIA_FLAG_TVSHOW_EPISODE -> "MEDIA_FLAG_TVSHOW_EPISODE"
      [] f = MEDIA_FLAG_FILE -> "MEDIA_FLAG_FILE"
      [] f = MEDIA_FLAG_VIDEO -> "MEDIA_FLAG_VIDEO"
      [] f = MEDIA_FLAG_AUDIO -> "MEDIA_FLAG_AUDIO"
      [] f = MEDIA_FLAG_SUBTITLE -> "MEDIA_FLAG_SUBTITLE"
      [] f = MEDIA_FLAG_DATA -> "MEDIA_FLAG_DATA"
      [] f = MEDIA_FLAG_ATTACHMENT -> "MEDIA_FLAG_ATTACHMENT"
      [] f = MEDIA_FLAG_ARTWORK -> "MEDIA_FLAG_ARTWORK"
      [] f = MEDIA_FLAG_CAPTIONS -> "MEDIA_FLAG_CAPTIONS"
      [] f = MEDIA_FLAG_ENCODER -> "MEDIA_FLAG_ENCODER"
      [] f = MEDIA_FLAG_DECODER -> "MEDIA_FLAG_DECODER"
      [] OTHER -> InvalidMarker

\* A Go string is modelled as the sequence of its pieces: the names and the
\* one-byte delimiter "|". A call either returns a string or panics.
Returned(str) == [panic |-> FALSE, str |-> str]
Panicked == [panic |-> TRUE, str |-> <<>>]

\* str[1:]: the string without its first byte; out of range on the empty string.
Slice1_Whole(str) == Returned(str)
Slice1(str) == IF Len(str) < 1 THEN Panicked ELSE Returned(Tail(str))

\* media.go:209-213: for v := MediaFlag(1); v <= MEDIA_FLAG_MAX; v <<= 1
RECURSIVE StringLoop(_, _, _)
StringLoop(f, v, str) ==
    IF ~(v <= MEDIA_FLAG_MAX) THEN str
    ELSE StringLoop(f, v * 2,
                    IF BitAnd(f, v) = v THEN str \o <<"|", FlagString(v)>> ELSE str)

\* media.go:204-215
String(f) ==
    IF f = MEDIA_FLAG_NONE
    THEN Returned(<<FlagString(f)>>)
    ELSE Slice1(StringLoop(f, 1, <<>>))

\* A MediaFlag made by OR-ing a set of named flags and bits above them, and
\* the last method called on it.
FlagValue(S, X) ==
    [set |-> S, extra |-> X, f |-> BitOr(OrAll(S), OrAll(X)), op |-> "none",
     is |-> {}, out |-> Returned(<<>>)]

NoFlag == FlagValue({}, {})

\* f.Is(v) for each of the named flags v: the flags it is true of.
FlagIs ==
    /\ mf.op = "none"
    /\ mf' = [mf EXCEPT !.op = "Is", !.is = {v \in NamedFlags : Is(mf.f, v)}]
    /\ UNCHANGED <<sm, cv>>
    /\ UNCHANGED <<decodeVars, mgrVars, workerVars>>

\* f.String()
FlagStringer ==
    /\ mf.op = "none"
    /\ mf' = [mf EXCEPT !.op = "String", !.out = String(mf.f)]
    /\ UNCHANGED <<sm, cv>>
    /\ UNCHANGED <<decodeVars, mgrVars, workerVars>>

----------------------------------------------------------------------------
(* manager.Map, manager.go:92-95, and the construction of a Map *)

\* The categories of stream a Map selects from.
CategoryFlags ==
    {MEDIA_FLAG_VIDEO, MEDIA_FLAG_AUDIO, MEDIA_FLAG_SUBTITLE, MEDIA_FLAG_DATA,
     MEDIA_FLAG_ATTACHMENT}

ErrBadParameter == "ErrBadParameter"

\* The categories a selector lets through.
Permitted(flags) ==
    IF flags = MEDIA_FLAG_NONE THEN CategoryFlags
    ELSE {c \in CategoryFlags : Is(flags, c)}

\* One walk over the streams in index order from stream i on: sel is the
\* list of the indexes selected so far.
RECURSIVE MapWalk(_, _, _, _)
MapWalk(ss, i, flags, sel) ==
    IF i > Len(ss) THEN sel
    ELSE IF /\ ss[i] \in Permitted(flags)
            /\ \A k \in 1 .. Len(sel) : ss[sel[k]] # ss[i]
         THEN MapWalk(ss, i + 1, flags, Append(sel, i))
         ELSE MapWalk(ss, i + 1, flags, sel)

\* NewMap(media, flags): the map and the error.
NewMap(m, flags) ==
    IF ~m.valid THEN [ok |-> FALSE, sel |-> <<>>, err |-> ErrBadParameter]
    ELSE [ok |-> TRUE, sel |-> MapWalk(m.streams, 1, flags, <<>>), err |-> NoErr]

\* func (m *manager) Map(media Media, flags MediaFlag) (Map, error)
ManagerMap_AnyFlags(m, flags) == NewMap(m, MEDIA_FLAG_NONE)
ManagerMap(m, flags) == NewMap(m, flags)

\* A Media with its streams' categories in index order, a selector made of
\* the set S of category flags, and the Map call made with them.
MapArgs(valid, ss, S) ==
    [op |-> "none", media |-> [valid |-> valid, streams |-> ss], set |-> S,
     flags |-> OrAll(S), out |-> [ok |-> FALSE, sel |-> <<>>, err |-> NoErr]]

MapCall ==
    /\ sm.op = "none"
    /\ sm' = [sm EXCEPT !.op = "Map", !.out = ManagerMap(sm.media, sm.flags)]
    /\ UNCHANGED <<mf, cv>>
    /\ UNCHANGED <<decodeVars, mgrVars, workerVars>>

----------------------------------------------------------------------------
(* The audio manager's Convert, as Test_manager_000 calls it *)

SAMPLE_FORMAT_NONE == "SAMPLE_FORMAT_NONE"
CHANNEL_LAYOUT_NONE == "CHANNEL_LAYOUT_NONE"
SampleFormats == {"SAMPLE_FORMAT_U8", "SAMPLE_FORMAT_DBL"}
ChannelLayouts == {"CHANNEL_LAYOUT_MONO", "CHANNEL_LAYOUT_STEREO"}
Rates == {44100, 48000}

AudioFormat(rate, format, layout) == [Rate |-> rate, Format |-> format, Layout |-> layout]

\* The formats of an input frame, and the targets a caller may ask for: any
\* field may be left at its zero value.
SourceFormats == {AudioFormat(r, f, l) : r \in Rates, f \in SampleFormats, l \in ChannelLayouts}
TargetFormats ==
    {AudioFormat(r, f, l) : r \in Rates \cup {0},
                            f \in SampleFormats \cup {SAMPLE_FORMAT_NONE},
                            l \in ChannelLayouts \cup {CHANNEL_LAYOUT_NONE}}

\* The format of the output: a zero field of the target is the source's.
Effective(src, target) ==
    AudioFormat(IF target.Rate = 0 THEN src.Rate ELSE target.Rate,
                IF target.Format = SAMPLE_FORMAT_NONE THEN src.Format ELSE target.Format,
                IF target.Layout = CHANNEL_LAYOUT_NONE THEN src.Layout ELSE target.Layout)

\* What the callback may return on an output buffer.
CallbackResults == {NoErr, EOF, "ErrCallback"}

\* What Convert returns when the callback has returned r, not nil: io.EOF
\* ends the conversion and is no error.
Surfaced_AnyNonNil(r) == Single(r)
Surfaced(r) == IF r = EOF THEN Nil ELSE Single(r)

ConvertArgs(src, target) ==
    [op |-> "none", src |-> src, target |-> target, out |-> src, pending |-> 0,
     calls |-> <<>>, ret |-> Nil]

\* mgr.Convert(in, target, fn) is entered: the output format is fixed and
\* the input makes some number of output buffers, possibly none.
ConvertCall ==
    /\ cv.op = "none"
    /\ \E n \in 0 .. MaxOutputs :
         cv' = [cv EXCEPT !.op = "running", !.out = Effective(cv.src, cv.target),
                          !.pending = n]
    /\ UNCHANGED <<mf, sm>>
    /\ UNCHANGED <<decodeVars, mgrVars, workerVars>>

\* The next output buffer is passed to the callback; a return that is not
\* nil ends the call.
ConvertDeliver ==
    /\ cv.op = "running"
    /\ cv.pending > 0
    /\ \E r \in CallbackResults :
         cv' = IF r = NoErr
               THEN [cv EXCEPT !.calls = Append(@, r), !.pending = @ - 1]
               ELSE [cv EXCEPT !.calls = Append(@, r), !.op = "done",
                               !.ret = Surfaced(r)]
    /\ UNCHANGED <<mf, sm>>
    /\ UNCHANGED <<decodeVars, mgrVars, workerVars>>

\* Every output buffer was delivered: Convert returns nil.
ConvertDone ==
    /\ cv.op = "running"
    /\ cv.pending = 0
    /\ cv' = [cv EXCEPT !.op = "done", !.ret = Nil]
    /\ UNCHANGED <<mf, sm>>
    /\ UNCHANGED <<decodeVars, mgrVars, workerVars>>

----------------------------------------------------------------------------
(* The registry and the goroutines before any call: the state New() leaves *)

MediaIds == 1 .. MaxMedia

ManagerNew ==
    /\ media = {}
    /\ nextId = 1
    /\ opened = {}
    /\ kind = [m \in MediaIds |-> "none"]
    /\ cbRan = {}
    /\ nclose = [m \in MediaIds |-> 0]
    /\ lastOp = [op |-> "New", media |-> 0, err |-> Nil, before |-> {},
                 nbefore |-> [m \in MediaIds |-> 0], fails |-> {}]

NoDecode ==
    /\ container = <<>>
    /\ tail = EOF
    /\ streams = {}
    /\ inputOK = TRUE
    /\ packetOK = TRUE
    /\ ctxErr = NoErr
    /\ pc = "idle"
    /\ pos = 0
    /\ pktHeld = FALSE
    /\ result = <<>>
    /\ returned = FALSE
    /\ ret = Nil
    /\ trace = <<>>

NoPureCall ==
    /\ mf = [NoFlag EXCEPT !.op = "idle"]
    /\ sm = [op |-> "idle"]
    /\ cv = [op |-> "idle"]

----------------------------------------------------------------------------
(* manager.Decode, manager.go:107-150 *)

\* case <-ctx.Done(): the context's channel is closed.
CtxDone_Never == FALSE
CtxDone == ctxErr # NoErr

\* errors.Is(err, io.EOF)
IsEOF_Never(err) == FALSE
IsEOF(err) == err = EOF

\* What a failed read leaves in "result": every failure but end-of-stream.
RecordReadErr_Dropped(res, err) == res
RecordReadErr(res, err) == IF ~IsEOF(err) THEN MultiAppend(res, err) ELSE res

\* "err != nil" after decodemap.Decode: the dispatch failed.
DispatchFailed_Never(err) == FALSE
DispatchFailed_Always(err) == TRUE
DispatchFailed(err) == err # NoErr

\* ffmpeg.AVFormat_av_read_frame(input.ctx, packet.ctx): NoErr with the next
\* packet in the buffer, or the error the container ends with.
ReadFrame == IF pos < Len(container) \/ tail = More THEN NoErr ELSE tail

\* The packet a successful read delivers.
NextPacket == IF pos < Len(container) THEN pos + 1 ELSE 1

\* What Decode has done is kept whole, except on a container that never
\* ends, where the last TraceWindow events are kept.
Log(e) ==
    IF tail = More /\ Len(trace) >= TraceWindow
    THEN Append(SubSeq(trace, Len(trace) - TraceWindow + 2, Len(trace)), e)
    ELSE Append(trace, e)

\* decodemap.Decode(ctx, packet, fn) hands the packet to fn when the packet's
\* stream is one the Map selected, and returns nil without calling fn otherwise.
MapSelects(p) == container[p] \in streams

Return(v) ==
    /\ returned' = TRUE
    /\ ret' = v
    /\ pc' = "done"

\* "!ok || input == nil": the Map's input is not a non-nil *input.
InputMissing_Never == FALSE
InputMissing == ~inputOK

\* "packet == nil": the Map has no packet to read into.
PacketMissing_Never == FALSE
PacketMissing == ~packetOK

\* manager.go:110-121: the input and the packet of the Map.
DecodeValidate ==
    /\ pc = "validate"
    /\ IF InputMissing
       THEN Return(Single("ErrBadParameter: input"))
       ELSE IF PacketMissing
            THEN Return(Single("ErrBadParameter: packet"))
            ELSE pc' = "select" /\ UNCHANGED <<returned, ret>>
    /\ UNCHANGED <<container, tail, streams, inputOK, packetOK, ctxErr, pos,
                   pktHeld, result, trace>>
    /\ UNCHANGED <<mgrVars, workerVars, pureVars>>

\* manager.go:124-127: the select at the top of every iteration.
DecodeSelect ==
    /\ pc = "select"
    /\ IF CtxDone
       THEN Return(Single(ctxErr))
       ELSE pc' = "read" /\ UNCHANGED <<returned, ret>>
    /\ UNCHANGED <<container, tail, streams, inputOK, packetOK, ctxErr, pos,
                   pktHeld, result, trace>>
    /\ UNCHANGED <<mgrVars, workerVars, pureVars>>

\* manager.go:128-133: read the next packet into the reusable buffer.
DecodeRead ==
    /\ pc = "read"
    /\ LET err == ReadFrame
       IN  IF err # NoErr
           THEN /\ result' = RecordReadErr(result, err)
                /\ trace' = Log(Event("read", 0, err))
                /\ pc' = "close"
                /\ UNCHANGED <<pos, pktHeld>>
           ELSE /\ pos' = NextPacket
                /\ pktHeld' = TRUE
                /\ trace' = Log(Event("read", NextPacket, NoErr))
                /\ pc' = "dispatch"
                /\ UNCHANGED result
    /\ UNCHANGED <<container, tail, streams, inputOK, packetOK, ctxErr,
                   returned, ret>>
    /\ UNCHANGED <<mgrVars, workerVars, pureVars>>

\* manager.go:134-137: hand the packet to the Map, which calls the handler.
DecodeDispatch ==
    /\ pc = "dispatch"
    /\ \E r \in (IF MapSelects(pos) THEN HandlerResults ELSE {NoErr}) :
         /\ trace' = IF MapSelects(pos)
                     THEN Log(Event("fn", pos, r))
                     ELSE trace
         /\ IF DispatchFailed(r)
            THEN result' = MultiAppend(result, r) /\ pc' = "close"
            ELSE pc' = "release" /\ UNCHANGED result
    /\ UNCHANGED <<container, tail, streams, inputOK, packetOK, ctxErr, pos,
                   pktHeld, returned, ret>>
    /\ UNCHANGED <<mgrVars, workerVars, pureVars>>

\* The loop without line 138: the packet is not released before the next read.
DecodeRelease_Skipped ==
    /\ pc = "release"
    /\ pc' = "select"
    /\ UNCHANGED <<container, tail, streams, inputOK, packetOK, ctxErr, pos,
                   pktHeld, result, returned, ret, trace>>
    /\ UNCHANGED <<mgrVars, workerVars, pureVars>>

\* manager.go:138: packet.Release()
DecodeRelease ==
    /\ pc = "release"
    /\ pktHeld' = FALSE
    /\ trace' = Log(Event("release", pos, NoErr))
    /\ pc' = "select"
    /\ UNCHANGED <<container, tail, streams, inputOK, packetOK, ctxErr, pos,
                   result, returned, ret>>
    /\ UNCHANGED <<mgrVars, workerVars, pureVars>>

\* manager.go:142-149: close the Map and return what was collected.
DecodeClose ==
    /\ pc = "close"
    /\ \E r \in CloseResults :
         LET res == IF r # NoErr THEN MultiAppend(result, r) ELSE result
         IN  /\ trace' = Log(Event("close", 0, r))
             /\ result' = res
             /\ Return(ReturnResult(res))
    /\ UNCHANGED <<container, tail, streams, inputOK, packetOK, ctxErr, pos,
                   pktHeld>>
    /\ UNCHANGED <<mgrVars, workerVars, pureVars>>

\* The owner of the context cancels it, or its deadline passes, at any moment
\* of the call.
Cancel ==
    /\ pc \notin {"done", "idle"}
    /\ ctxErr = NoErr
    /\ \E reason \in CancelReasons : ctxErr' = reason
    /\ UNCHANGED <<container, tail, streams, inputOK, packetOK, pc, pos,
                   pktHeld, result, returned, ret, trace>>
    /\ UNCHANGED <<mgrVars, workerVars, pureVars>>

WorkersIdle ==
    /\ wpc = <<>>
    /\ wop = <<>>
    /\ wkeys = <<>>
    /\ wmedia = <<>>
    /\ inMap = <<>>
    /\ raced = FALSE

\* A Decode call about to start, on a container that ends in one of "tails".
DecodeCalled(tails) ==
    /\ container \in SeqsUpTo(StreamIds, MaxPackets)
    /\ tail \in tails
    /\ tail = More => container # <<>>
    /\ streams \in SUBSET StreamIds
    /\ inputOK \in BOOLEAN
    /\ packetOK \in BOOLEAN
    /\ ctxErr = NoErr
    /\ pc = "validate"
    /\ pos = 0
    /\ pktHeld = FALSE
    /\ result = <<>>
    /\ returned = FALSE
    /\ ret = Nil
    /\ trace = <<>>

Init ==
    /\ DecodeCalled(ReadErrors)
    /\ ManagerNew
    /\ WorkersIdle
    /\ NoPureCall

Next ==
    \/ DecodeValidate
    \/ DecodeSelect
    \/ DecodeRead
    \/ DecodeDispatch
    \/ DecodeRelease
    \/ DecodeClose
    \/ Cancel

Spec == Init /\ [][Next]_vars

\* Decode itself goes on: the read, the handler, the release and the close it
\* calls all return. Nothing says that the context is ever cancelled.
DecodeStep ==
    \/ DecodeValidate
    \/ DecodeSelect
    \/ DecodeRead
    \/ DecodeDispatch
    \/ DecodeRelease
    \/ DecodeClose

InitLive ==
    /\ DecodeCalled(ReadErrors \cup {More})
    /\ ManagerNew
    /\ WorkersIdle
    /\ NoPureCall

SpecLive == InitLive /\ [][Next]_vars /\ WF_vars(DecodeStep)

----------------------------------------------------------------------------
(* The registry of open Media, manager.go:21-90, called by one goroutine *)

\* m.media[media] = true
Register_Forgotten(set, m) == set
Register(set, m) == set \cup {m}

\* The callback OpenFile / CreateFile install: delete(m.media, media)
CloseCallback_Clear(set, m) == {}
CloseCallback(set, m) == set \ {m}

\* for media := range m.media { keys = append(keys, media) }: the keys of
\* the map, in the order the runtime's iteration happens to give.
Perms(S) ==
    {f \in [1 .. Cardinality(S) -> S] : \A i, j \in 1 .. Cardinality(S) : f[i] = f[j] => i = j}
SnapshotKeys(set) == Perms(set)

\* result = multierror.Append(result, err) in Manager.Close
CollectCloseErr_KeepLast(res, e) == <<e>>
CollectCloseErr(res, e) == MultiAppend(res, e)

CloseError(m) == [media |-> m, err |-> "close failed"]

\* Media.Close(): releases the container and invokes the callback given at
\* construction, whether or not the release fails. st is the registry:
\* [media, cbRan, nclose].
MediaClose(st, m) ==
    [st EXCEPT !.media = CloseCallback(st.media, m),
               !.cbRan = st.cbRan \cup {m},
               !.nclose = [st.nclose EXCEPT ![m] = @ + 1]]

\* for _, media := range keys { if err := media.Close(); err != nil { ... } }
RECURSIVE CloseKeys(_, _, _, _)
CloseKeys(keys, fails, st, res) ==
    IF keys = <<>>
    THEN [st |-> st, result |-> res]
    ELSE LET m == Head(keys)
         IN  CloseKeys(Tail(keys), fails, MediaClose(st, m),
                       IF m \in fails THEN CollectCloseErr(res, CloseError(m)) ELSE res)

Registry == [media |-> media, cbRan |-> cbRan, nclose |-> nclose]

Called(op, m, err, fails) ==
    lastOp' = [op |-> op, media |-> m, err |-> err, before |-> media,
               nbefore |-> nclose, fails |-> fails]

\* if err != nil { return nil, err }; m.media[media] = true: the map after
\* the constructor has returned m (nil when it failed).
AfterConstruct_RegisterFirst(set, m, ok) == Register(set, m)
AfterConstruct(set, m, ok) == IF ok THEN Register(set, m) ELSE set

\* manager.go:59-73 and 76-90: NewInputFile / NewOutputFile either fails, and
\* nil and the error are returned, or constructs a Media, which is registered.
Open(op, k) ==
    /\ \E ok \in BOOLEAN :
         IF ok
         THEN /\ nextId <= MaxMedia
              /\ media' = AfterConstruct(media, nextId, TRUE)
              /\ opened' = opened \cup {nextId}
              /\ kind' = [kind EXCEPT ![nextId] = k]
              /\ nextId' = nextId + 1
              /\ Called(op, nextId, Nil, {})
         ELSE /\ media' = AfterConstruct(media, 0, FALSE)
              /\ Called(op, 0, Single("open failed"), {})
              /\ UNCHANGED <<opened, kind, nextId>>
    /\ UNCHANGED <<cbRan, nclose>>
    /\ UNCHANGED <<decodeVars, workerVars, pureVars>>

OpenFile == Open("OpenFile", "input")

CreateFile == Open("CreateFile", "output")

\* The owner of a handle closes it (a handle already closed included).
CloseMedia ==
    /\ \E m \in opened : \E r \in CloseResults :
         /\ nclose[m] < MaxCloses
         /\ LET st == MediaClose(Registry, m)
            IN  /\ media' = st.media
                /\ cbRan' = st.cbRan
                /\ nclose' = st.nclose
         /\ Called("Media.Close", m, IF r = NoErr THEN Nil ELSE Single(CloseError(m)),
                   IF r = NoErr THEN {} ELSE {m})
    /\ UNCHANGED <<opened, kind, nextId>>
    /\ UNCHANGED <<decodeVars, workerVars, pureVars>>

\* manager.go:37-53
ManagerClose ==
    /\ \E keys \in SnapshotKeys(media) : \E fails \in SUBSET media :
         LET out == CloseKeys(keys, fails, Registry, <<>>)
         IN  /\ media' = out.st.media
             /\ cbRan' = out.st.cbRan
             /\ nclose' = out.st.nclose
             /\ Called("Manager.Close", 0, ReturnResult(out.result), fails)
    /\ UNCHANGED <<opened, kind, nextId>>
    /\ UNCHANGED <<decodeVars, workerVars, pureVars>>

InitManager ==
    /\ NoDecode
    /\ ManagerNew
    /\ WorkersIdle
    /\ NoPureCall

NextManager ==
    \/ OpenFile
    \/ CreateFile
    \/ CloseMedia
    \/ ManagerClose

SpecManager == InitManager /\ [][NextManager]_vars

----------------------------------------------------------------------------
(* The same calls made by several goroutines. The manager struct           *)
(* (manager.go:21-23) holds the map and nothing else: no call takes a lock, *)
(* so a goroutine is at any moment before, in the middle of, or after each  *)
(* of its accesses to manager.media. An access that overlaps a write is a   *)
(* data race: the Go runtime may stop the process ("fatal error: concurrent *)
(* map writes"), or the access goes through on a map in an unknown state.   *)

Workers == 1 .. NumWorkers

\* What the access a worker is about to make does to manager.media.
AccessMode(w) == IF wpc[w] = "range" THEN "read" ELSE "write"

Races(w, mode) ==
    \E v \in Workers \ {w} :
        inMap[v] # "none" /\ (mode = "write" \/ inMap[v] = "write")

\* A goroutine calls OpenFile or CreateFile.
WCallOpen(w) ==
    /\ wpc[w] = "idle"
    /\ nextId <= MaxWorkerMedia
    /\ \E op \in {"OpenFile", "CreateFile"} : wop' = [wop EXCEPT ![w] = op]
    /\ wpc' = [wpc EXCEPT ![w] = "construct"]
    /\ UNCHANGED <<wkeys, wmedia, inMap, raced>>
    /\ UNCHANGED <<decodeVars, mgrVars, pureVars>>

\* NewInputFile / NewOutputFile: manager.go:60-66, 77-83
WConstruct(w) ==
    /\ wpc[w] = "construct"
    /\ \E ok \in BOOLEAN :
         IF ok /\ nextId <= MaxWorkerMedia
         THEN /\ wmedia' = [wmedia EXCEPT ![w] = nextId]
              /\ kind' = [kind EXCEPT ![nextId] =
                             IF wop[w] = "OpenFile" THEN "input" ELSE "output"]
              /\ nextId' = nextId + 1
              /\ wpc' = [wpc EXCEPT ![w] = "register"]
         ELSE /\ wpc' = [wpc EXCEPT ![w] = "idle"]
              /\ UNCHANGED <<wmedia, kind, nextId>>
    /\ UNCHANGED <<wop, wkeys, inMap, raced>>
    /\ UNCHANGED <<media, opened, cbRan, nclose, lastOp>>
    /\ UNCHANGED <<decodeVars, pureVars>>

\* A goroutine calls Media.Close on a handle it was given.
WCallMediaClose(w) ==
    /\ wpc[w] = "idle"
    /\ \E m \in opened :
         /\ nclose[m] < MaxWorkerCloses
         /\ nclose' = [nclose EXCEPT ![m] = @ + 1]
         /\ wmedia' = [wmedia EXCEPT ![w] = m]
    /\ wop' = [wop EXCEPT ![w] = "Media.Close"]
    /\ wpc' = [wpc EXCEPT ![w] = "callback"]
    /\ UNCHANGED <<wkeys, inMap, raced>>
    /\ UNCHANGED <<media, nextId, opened, kind, cbRan, lastOp>>
    /\ UNCHANGED <<decodeVars, pureVars>>

\* A goroutine calls Manager.Close: manager.go:37
WCallManagerClose(w) ==
    /\ wpc[w] = "idle"
    /\ media # {}
    /\ wop' = [wop EXCEPT ![w] = "Manager.Close"]
    /\ wpc' = [wpc EXCEPT ![w] = "range"]
    /\ UNCHANGED <<wkeys, wmedia, inMap, raced>>
    /\ UNCHANGED <<decodeVars, mgrVars, pureVars>>

\* The access to manager.media begins: the write of manager.go:69 / 86,
\* the range of manager.go:42-44, the delete of manager.go:61 / 78.
WBeginAccess(w) ==
    /\ wpc[w] \in {"register", "range", "callback"}
    /\ inMap[w] = "none"
    /\ inMap' = [inMap EXCEPT ![w] = AccessMode(w)]
    /\ raced' = (raced \/ Races(w, AccessMode(w)))
    /\ UNCHANGED <<wpc, wop, wkeys, wmedia>>
    /\ UNCHANGED <<decodeVars, mgrVars, pureVars>>

\* The access ends. On a map that was raced on, a write may be lost and a
\* range may see any of the handles.
WEndAccess(w) ==
    /\ inMap[w] # "none"
    /\ inMap' = [inMap EXCEPT ![w] = "none"]
    /\ wpc[w] = "register" =>
         /\ media' \in {Register(media, wmedia[w])} \cup (IF raced THEN {media} ELSE {})
         /\ opened' = opened \cup {wmedia[w]}
         /\ wpc' = [wpc EXCEPT ![w] = "idle"]
         /\ UNCHANGED <<wkeys, cbRan>>
    /\ wpc[w] = "range" =>
         /\ wkeys' \in {[wkeys EXCEPT ![w] = ks] :
                           ks \in {media} \cup (IF raced THEN SUBSET media ELSE {})}
         /\ wpc' = [wpc EXCEPT ![w] = "closing"]
         /\ UNCHANGED <<media, opened, cbRan>>
    /\ wpc[w] = "callback" =>
         /\ media' \in {CloseCallback(media, wmedia[w])} \cup (IF raced THEN {media} ELSE {})
         /\ cbRan' = cbRan \cup {wmedia[w]}
         /\ wpc' = [wpc EXCEPT ![w] =
                       IF wop[w] = "Manager.Close" THEN "closing" ELSE "idle"]
         /\ UNCHANGED <<wkeys, opened>>
    /\ UNCHANGED <<wop, wmedia, raced>>
    /\ UNCHANGED <<nextId, kind, nclose, lastOp>>
    /\ UNCHANGED <<decodeVars, pureVars>>

\* manager.go:45-49: the next of the keys is closed, or the call returns.
WCloseNext(w) ==
    /\ wpc[w] = "closing"
    /\ IF wkeys[w] = {}
       THEN /\ wpc' = [wpc EXCEPT ![w] = "idle"]
            /\ UNCHANGED <<wkeys, wmedia>>
       ELSE \E m \in wkeys[w] :
            /\ wkeys' = [wkeys EXCEPT ![w] = @ \ {m}]
            /\ wmedia' = [wmedia EXCEPT ![w] = m]
            /\ wpc' = [wpc EXCEPT ![w] = "callback"]
    /\ UNCHANGED <<wop, inMap, raced>>
    /\ UNCHANGED mgrVars
    /\ UNCHANGED <<decodeVars, pureVars>>

\* The runtime detects the concurrent map access and stops the process.
Fatal ==
    /\ raced
    /\ \E w \in Workers : wpc[w] # "crashed"
    /\ wpc' = [w \in Workers |-> "crashed"]
    /\ inMap' = [w \in Workers |-> "none"]
    /\ UNCHANGED <<wop, wkeys, wmedia, raced>>
    /\ UNCHANGED <<decodeVars, mgrVars, pureVars>>

InitConcurrent ==
    /\ NoDecode
    /\ ManagerNew
    /\ wpc = [w \in Workers |-> "idle"]
    /\ wop = [w \in Workers |-> "none"]
    /\ wkeys = [w \in Workers |-> {}]
    /\ wmedia = [w \in Workers |-> 0]
    /\ inMap = [w \in Workers |-> "none"]
    /\ raced = FALSE
    /\ NoPureCall

NextConcurrent ==
    \/ \E w \in Workers : WCallOpen(w)
    \/ \E w \in Workers : WConstruct(w)
    \/ \E w \in Workers : WCallMediaClose(w)
    \/ \E w \in Workers : WCallManagerClose(w)
    \/ \E w \in Workers : WBeginAccess(w)
    \/ \E w \in Workers : WEndAccess(w)
    \/ \E w \in Workers : WCloseNext(w)
    \/ Fatal

SpecConcurrent == InitConcurrent /\ [][NextConcurrent]_vars

----------------------------------------------------------------------------
(* The methods of MediaFlag applied to the values made of the named flags  *)
(* and of bits above them                                                  *)

InitFlags ==
    /\ NoDecode
    /\ ManagerNew
    /\ WorkersIdle
    /\ \E S \in SUBSET NamedFlags : \E X \in SUBSET ExtraFlags : mf = FlagValue(S, X)
    /\ sm = [op |-> "idle"]
    /\ cv = [op |-> "idle"]

NextFlags ==
    \/ FlagIs
    \/ FlagStringer

SpecFlags == InitFlags /\ [][NextFlags]_vars

----------------------------------------------------------------------------
(* Map called on every Media of up to MaxMapStreams streams with every     *)
(* selector made of category flags                                         *)

InitMap ==
    /\ NoDecode
    /\ ManagerNew
    /\ WorkersIdle
    /\ mf = [NoFlag EXCEPT !.op = "idle"]
    /\ \E valid \in BOOLEAN : \E n \in 0 .. MaxMapStreams :
         \E ss \in [1 .. n -> CategoryFlags] : \E S \in SUBSET CategoryFlags :
             sm = MapArgs(valid, ss, S)
    /\ cv = [op |-> "idle"]

NextMap == MapCall

SpecMap == InitMap /\ [][NextMap]_vars

----------------------------------------------------------------------------
(* Convert called on an input of every source format with every target     *)

InitConvert ==
    /\ NoDecode
    /\ ManagerNew
    /\ WorkersIdle
    /\ mf = [NoFlag EXCEPT !.op = "idle"]
    /\ sm = [op |-> "idle"]
    /\ \E src \in SourceFormats : \E target \in TargetFormats :
         cv = ConvertArgs(src, target)

NextConvert ==
    \/ ConvertCall
    \/ ConvertDeliver
    \/ ConvertDone

SpecConvert == InitConvert /\ [][NextConvert]_vars

----------------------------------------------------------------------------
(* What a Decode call has done, read off its trace *)

Events(op) == {i \in 1 .. Len(trace) : trace[i].op = op}
FailedReads == {i \in Events("read") : trace[i].err \notin {NoErr, EOF}}
FailedCalls == {i \in Events("fn") : trace[i].err # NoErr}
FailedCloses == {i \in Events("close") : trace[i].err # NoErr}
Selected == {p \in 1 .. Len(container) : container[p] \in streams}
ValidationPassed == inputOK /\ packetOK

----------------------------------------------------------------------------
(* C1: at an iteration boundary (the select at the top of the loop) where  *)
(* the context is already done, the step Decode takes is to return the     *)
(* context's error, with no read and no handler call added to what it has  *)
(* done; and once it has returned it does nothing more. A context done     *)
(* before the first read therefore leaves no read and no handler call.     *)
C1_CancelAtBoundary ==
    [][ /\ (pc = "select" /\ ctxErr # NoErr)
             => (returned' /\ ret' = Single(ctxErr) /\ trace' = trace /\ pos' = pos)
        /\ returned => (trace' = trace /\ pos' = pos /\ ret' = ret) ]_vars

\* Decode was cancelled in the middle of a container: it had read and
\* dispatched packets, more were left, and it returned the context's error.
C1_Witness ==
    /\ returned
    /\ ctxErr # NoErr
    /\ ret = Single(ctxErr)
    /\ Events("fn") # {}
    /\ pos < Len(container)

(* C2: whenever Decode has returned after its parameters passed validation *)
(* (by end-of-stream, a read failure, a handler error or cancellation),    *)
(* the Map was closed exactly once.                                        *)
C2_ClosedOnEveryExit ==
    (returned /\ ValidationPassed) => Cardinality(Events("close")) = 1

(* C3: when the container ends with end-of-stream, the context was never   *)
(* cancelled, every handler call returned nil and the close succeeded,     *)
(* Decode has called the handler once per packet of a selected stream and  *)
(* has returned nil.                                                       *)
C3_EndOfStream ==
    ( /\ returned
      /\ ValidationPassed
      /\ tail = EOF
      /\ ctxErr = NoErr
      /\ FailedCalls = {}
      /\ FailedCloses = {} )
    => ( /\ Cardinality(Events("fn")) = Cardinality(Selected)
         /\ {trace[i].pkt : i \in Events("fn")} = Selected
         /\ ret = Nil )

\* A container of three packets, two of a selected stream and one not, was
\* decoded to its end: two handler calls and a nil result.
C3_Witness ==
    /\ returned
    /\ ValidationPassed
    /\ tail = EOF
    /\ ctxErr = NoErr
    /\ FailedCalls = {}
    /\ FailedCloses = {}
    /\ Len(container) = 3
    /\ Cardinality(Selected) = 2
    /\ Cardinality(Events("fn")) = 2
    /\ ret = Nil

(* C4: once a handler dispatch has returned an error, the error is in the  *)
(* aggregate, nothing but the close of the Map follows it (no read, no     *)
(* handler call), and what Decode returns is a multierror holding it.      *)
C4_HandlerErrorEndsLoop ==
    \A i \in FailedCalls :
        /\ pc \in {"close", "done"}
        /\ \A j \in (i + 1) .. Len(trace) : trace[j].op = "close"
        /\ trace[i].err \in Range(result)
        /\ returned => (ret.kind = "multierror" /\ trace[i].err \in Range(ret.errs))

\* The handler accepted one packet and failed on a later one, and Decode
\* has returned.
C4_Witness ==
    /\ returned
    /\ FailedCalls # {}
    /\ Events("fn") \ FailedCalls # {}

(* C5: once a read has failed with anything but end-of-stream, the error   *)
(* is in the aggregate, nothing but the close of the Map follows the read  *)
(* (no handler call for it, no further read), and what Decode returns is a *)
(* multierror holding the read error.                                      *)
C5_ReadErrorEndsLoop ==
    \A i \in FailedReads :
        /\ pc \in {"close", "done"}
        /\ \A j \in (i + 1) .. Len(trace) : trace[j].op = "close"
        /\ trace[i].err \in Range(result)
        /\ returned => (ret.kind = "multierror" /\ trace[i].err \in Range(ret.errs))

\* A read failed after packets had been read and dispatched, and Decode has
\* returned.
C5_Witness ==
    /\ returned
    /\ FailedReads # {}
    /\ Events("fn") # {}

(* C6: whenever Decode has returned an error after validation, whatever    *)
(* the error that ended the loop, the close of the Map was attempted, and  *)
(* a failure of the close is in the returned aggregate together with the   *)
(* error that ended the loop.                                              *)
C6_CloseAlwaysAttempted ==
    (returned /\ ValidationPassed /\ ret # Nil) =>
        /\ Events("close") # {}
        /\ \A i \in FailedReads \cup FailedCalls \cup FailedCloses :
               trace[i].err \in Range(ret.errs)

----------------------------------------------------------------------------
(* C7: a call of Manager.Close has called Close exactly once on every      *)
(* Media that was in the open-set when it was called, and on no other;     *)
(* what it returns holds exactly one error per Media whose Close failed,   *)
(* and is nil exactly when none failed.                                    *)
C7_CloseAll ==
    lastOp.op = "Manager.Close" =>
        /\ \A m \in MediaIds :
               nclose[m] - lastOp.nbefore[m] = IF m \in lastOp.before THEN 1 ELSE 0
        /\ Len(lastOp.err.errs) = Cardinality(lastOp.fails)
        /\ \A m \in lastOp.fails :
               Cardinality({i \in 1 .. Len(lastOp.err.errs) : lastOp.err.errs[i] = CloseError(m)}) = 1
        /\ lastOp.err = Nil <=> lastOp.fails = {}

\* Manager.Close on three open Media, of which exactly one failed to close.
C7_Witness ==
    /\ lastOp.op = "Manager.Close"
    /\ Cardinality(lastOp.before) = 3
    /\ Cardinality(lastOp.fails) = 1
    /\ lastOp.err.kind = "multierror"

(* C8: the calls of several goroutines are serialized on the open-set: no  *)
(* two goroutines are in the middle of an access to manager.media at the   *)
(* same time.                                                              *)
C8_Serialized ==
    \A v, w \in Workers : v # w => (inMap[v] = "none" \/ inMap[w] = "none")

(* C9: the open-set is exactly the Media a successful OpenFile or          *)
(* CreateFile has returned whose close callback has not run.               *)
C9_OpenSetExact == media = opened \ cbRan

\* Handles of both kinds were opened; one was closed and another is open.
C9_Witness ==
    /\ media # {}
    /\ cbRan # {}
    /\ \E m \in opened : kind[m] = "input"
    /\ \E m \in opened : kind[m] = "output"

(* C10: the handler is called only for packets of a selected stream, for   *)
(* the packet just read, in the order of the container; a packet of an     *)
(* unselected stream gets no handler call and records no error, and after  *)
(* it the loop goes on to release the packet and to the next read.         *)
C10_OnlySelectedInOrder ==
    /\ \A i \in Events("fn") :
           /\ container[trace[i].pkt] \in streams
           /\ trace[i - 1] = Event("read", trace[i].pkt, NoErr)
    /\ \A i, j \in Events("fn") : i < j => trace[i].pkt < trace[j].pkt
    /\ \A i \in Events("read") :
           (trace[i].err = NoErr /\ container[trace[i].pkt] \notin streams) =>
               /\ (i = Len(trace) /\ pc = "release") => result = <<>>
               /\ i < Len(trace) => trace[i + 1] = Event("release", trace[i].pkt, NoErr)
               /\ i + 1 < Len(trace) => trace[i + 2].op = "read"

\* A packet of an unselected stream was skipped and a later packet of a
\* selected stream reached the handler.
C10_Witness ==
    \E i \in Events("read") : \E j \in Events("fn") :
        /\ trace[i].err = NoErr
        /\ container[trace[i].pkt] \notin streams
        /\ i < j

C12_Terminates ==
    /\ (tail # More) ~> returned
    /\ (ctxErr # NoErr) ~> returned
    /\ [](( returned /\ ValidationPassed) =>
            \/ (ctxErr # NoErr /\ ret = Single(ctxErr))
            \/ \E i \in Events("read") : trace[i].err # NoErr
            \/ FailedCalls # {})

\* Decode on a container that never ends has read and dispatched packets
\* and has returned because the context was cancelled.
C12_Witness ==
    /\ returned
    /\ tail = More
    /\ ret = Single(ctxErr)
    /\ Len(trace) = TraceWindow
    /\ pos < Len(container)

\* The names of a set of named flags in ascending order, joined by "|".
RECURSIVE Joined(_)
Joined(S) ==
    IF S = {} THEN <<>>
    ELSE LET m == CHOOSE x \in S : \A y \in S : x <= y
         IN  IF S = {m} THEN <<FlagString(m)>>
             ELSE <<FlagString(m), "|">> \o Joined(S \ {m})

(* C13: for a value that is the OR of a set S of named flags, Is(v) of a   *)
(* named flag v is true exactly when v is in S.                            *)
C13_IsMembership ==
    (mf.op = "Is" /\ mf.extra = {}) =>
        \A v \in NamedFlags : v \in mf.is <=> v \in mf.set

\* Is was called on the OR of several flags, but not all: it was true of
\* some named flags and false of others.
C13_Witness ==
    /\ mf.op = "Is"
    /\ mf.extra = {}
    /\ Cardinality(mf.set) = 7
    /\ mf.is # {}
    /\ mf.is # NamedFlags

(* C14: String of a value with a bit outside the named flags returns (it   *)
(* does not fail) and what it returns contains the invalid marker.         *)
C14_InvalidMarked ==
    (mf.op = "String" /\ mf.extra # {}) =>
        (~mf.out.panic /\ InvalidMarker \in Range(mf.out.str))

(* C15: String of the OR of a non-empty set S of named flags is the names  *)
(* of the members of S, each once, in ascending order of their bits,       *)
(* joined by "|" with none at either end; String of zero is                *)
(* MEDIA_FLAG_NONE.                                                        *)
C15_StringOfNamed ==
    (mf.op = "String" /\ mf.extra = {}) =>
        /\ ~mf.out.panic
        /\ mf.out.str = IF mf.set = {} THEN <<"MEDIA_FLAG_NONE">> ELSE Joined(mf.set)

\* String was called on the OR of three flags, the highest among them.
C15_Witness ==
    /\ mf.op = "String"
    /\ mf.extra = {}
    /\ Cardinality(mf.set) = 3
    /\ MEDIA_FLAG_DECODER \in mf.set
    /\ Len(mf.out.str) = 5

(* C19, as claimed: MEDIA_FLAG_MAX is the OR of the fifteen named flags,   *)
(* and every OR of named flags lies in 0 .. MEDIA_FLAG_MAX.                *)
C19_MaxIsOrOfAll ==
    mf.extra = {} =>
        /\ MEDIA_FLAG_MAX = OrAll(NamedFlags)
        /\ mf.f \in 0 .. MEDIA_FLAG_MAX

(* C19, amended: MEDIA_FLAG_MAX is the highest named flag, and every OR of *)
(* named flags lies in 0 .. 2 * MEDIA_FLAG_MAX - 1.                        *)
C19_MaxIsHighestFlag ==
    mf.extra = {} =>
        /\ MEDIA_FLAG_MAX \in NamedFlags
        /\ \A v \in NamedFlags : v <= MEDIA_FLAG_MAX
        /\ mf.f \in 0 .. (2 * MEDIA_FLAG_MAX - 1)
        /\ mf.f = OrAll(mf.set)

\* The OR of all fifteen named flags: a value above MEDIA_FLAG_MAX.
C19_Witness ==
    /\ mf.set = NamedFlags
    /\ mf.extra = {}
    /\ mf.f > MEDIA_FLAG_MAX
    /\ mf.op = "String"

(* C18: a read is made only into a released packet; between two            *)
(* consecutive reads there is exactly one release of the packet, and it    *)
(* comes after the dispatch of the first read.                             *)
C18_ReleasedBetweenReads ==
    /\ pc = "read" => ~pktHeld
    /\ \A i, j \in Events("read") :
           (i < j /\ Events("read") \cap ((i + 1) .. (j - 1)) = {}) =>
               /\ Cardinality(Events("release") \cap (i .. j)) = 1
               /\ trace[j - 1] = Event("release", trace[i].pkt, NoErr)

\* Three packets were read one after another.
C18_Witness ==
    /\ Cardinality(Events("read")) >= 3
    /\ Cardinality(Events("release")) >= 2
    /\ Events("fn") # {}

(* C20: wherever the cancellation check is evaluated nothing has been      *)
(* recorded: the aggregate is empty and no read or handler call has        *)
(* failed; so a Decode that returned the context's error has recorded and  *)
(* dropped no other error.                                                 *)
C20_NothingRecordedAtCheck ==
    /\ pc = "select" => (result = <<>> /\ FailedReads = {} /\ FailedCalls = {})
    /\ (returned /\ ctxErr # NoErr /\ ret = Single(ctxErr)) =>
           (result = <<>> /\ FailedReads = {} /\ FailedCalls = {} /\ FailedCloses = {})

\* Decode returned the context's error after it had dispatched packets.
C20_Witness ==
    /\ returned
    /\ ctxErr # NoErr
    /\ ret = Single(ctxErr)
    /\ Cardinality(Events("fn")) >= 2

----------------------------------------------------------------------------
----------------------------------------------------------------------------
----------------------------------------------------------------------------
(* C21: a failing OpenFile or CreateFile returns a nil Media with the      *)
(* error and leaves the manager's open-set exactly as it was before the    *)
(* call; a handle is in the set after the call only if it was there before *)
(* or its construction has succeeded.                                      *)
C21_FailedOpenLeavesSet ==
    lastOp.op \in {"OpenFile", "CreateFile"} =>
        /\ lastOp.err # Nil =>
              /\ lastOp.media = 0
              /\ media = lastOp.before
        /\ \A m \in media \ lastOp.before :
              /\ lastOp.err = Nil
              /\ m = lastOp.media
              /\ m \in opened

\* CreateFile failed on a manager that holds open Media.
C21_Witness ==
    /\ lastOp.op = "CreateFile"
    /\ lastOp.err # Nil
    /\ lastOp.before # {}
    /\ media = lastOp.before
====
